---- MODULE Spec2Model ----
(***************************************************************************)
(* Model of src/main.py: the in-memory case store (DB_CASES, DB_DOCS), the *)
(* bearer check and the six request handlers.                              *)
(*                                                                         *)
(* Strings the code inspects are sequences of tokens: an Authorization     *)
(* header is the sequence of its words and single spaces, a case id is the *)
(* prefix "caso_" followed by the decimal digits of its number.  Python's  *)
(* None and an absent dict key are the strings "None" and "absent".        *)
(* DB_DOCS maps a case id to a list object; list objects live in heap, so  *)
(* that a handler can hold a reference to a list while another rebinds the *)
(* key.                                                                    *)
(*                                                                         *)
(* History variables, read by the properties only and kept by the handlers *)
(* run to completion: resp is the last request served, with what its       *)
(* handler had read of it, and its response; issued lists the ids returned *)
(* by create_case; attached[id] is the concatenation of the batches        *)
(* add_documents accepted for id; supplied[id] is the payload create_case  *)
(* was given for id.  A handler run by a thread keeps its request, its     *)
(* locals and its response in its frame loc[p].                            *)
(***************************************************************************)
EXTENDS Integers, Sequences, FiniteSets, TLC

VARIABLES DB_CASES, DB_DOCS, heap, resp, issued, attached, supplied, pc, loc

vars == <<DB_CASES, DB_DOCS, heap, resp, issued, attached, supplied, pc, loc>>

store == <<DB_CASES, DB_DOCS, heap>>

---------------------------------------------------------------------------
(* Bounds of the model *)

MaxCases == 2

MaxDocs == 3

MaxBatch == 2

MaxLimit == 3

NumProcs == 3

NumAttachers == 2

---------------------------------------------------------------------------
(* Program constants *)

API_KEY == <<"changeme">>

DefaultMatter == "Direito do Trabalho"

DefaultEncoding == "plain"

DefaultLimit == 10

DocTypes ==
  {"peticao_inicial", "contestacao", "sentenca", "ed", "ro", "acordao", "rr",
   "airr", "ai", "edtst", "rext", "ap", "outro"}

Encodings == {"plain", "base64"}

SearchItems ==
  << [source |-> "CLT", identifier |-> "Art. 461"],
     [source |-> "SUMULA_TST", identifier |-> "Sumula 6"] >>

AnalysisCitations ==
  << [source |-> "CLT", identifier |-> "Art. 59"],
     [source |-> "SUMULA_TST", identifier |-> "Sumula 85"] >>

---------------------------------------------------------------------------
(* Pure helpers *)

Min(a, b) == IF a <= b THEN a ELSE b

Max(a, b) == IF a >= b THEN a ELSE b

DigitChars == <<"0", "1", "2", "3", "4", "5", "6", "7", "8", "9">>

RECURSIVE Digits(_)
Digits(n) ==
  IF n < 10 THEN <<DigitChars[n + 1]>>
  ELSE Digits(n \div 10) \o <<DigitChars[(n % 10) + 1]>>

(* f"caso_{n}" *)
FormatCaseId(n) == <<"caso_">> \o Digits(n)

(* s.startswith(prefix) *)
StartsWith(s, prefix) ==
  /\ Len(s) >= Len(prefix)
  /\ SubSeq(s, 1, Len(prefix)) = prefix

(* s.split(" ", 1)[1]: what follows the first space *)
RECURSIVE FirstSpace(_, _)
FirstSpace(s, i) ==
  IF i > Len(s) THEN 0
  ELSE IF s[i] = " " THEN i
  ELSE FirstSpace(s, i + 1)

AfterFirstSpace(s) == SubSeq(s, FirstSpace(s, 1) + 1, Len(s))

(* s.strip() *)
RECURSIVE Strip(_)
Strip(s) ==
  IF s = <<>> THEN s
  ELSE IF Head(s) = " " THEN Strip(Tail(s))
  ELSE IF s[Len(s)] = " " THEN Strip(SubSeq(s, 1, Len(s) - 1))
  ELSE s

(* lst[:k] of Python: a negative k counts from the end *)
SliceTo(lst, k) ==
  LET stop == IF k < 0 THEN Max(Len(lst) + k, 0) ELSE Min(k, Len(lst))
  IN SubSeq(lst, 1, stop)

check_auth_scheme_only(auth) ==
  IF ~auth.present \/ auth.s = <<>> \/ ~StartsWith(auth.s, <<"Bearer", " ">>)
  THEN 401
  ELSE 200

(* check_auth: 200 when it returns, else the status it raises *)
check_auth(auth) ==
  IF ~auth.present \/ auth.s = <<>> \/ ~StartsWith(auth.s, <<"Bearer", " ">>)
  THEN 401
  ELSE IF Strip(AfterFirstSpace(auth.s)) # API_KEY THEN 403
  ELSE 200

(* DocumentInput built from d: the field patterns *)
DocValid(d) ==
  /\ d.type \in DocTypes
  /\ d.encoding \in Encodings \cup {"absent"}

(* DocumentInput built from d: the object, defaults filled *)
DocumentInput(d) ==
  [type |-> d.type,
   filename |-> "None",
   content |-> d.content,
   encoding |-> IF d.encoding = "absent" THEN DefaultEncoding ELSE d.encoding]

BatchValid(batch) == \A i \in 1..Len(batch) : DocValid(batch[i])

BuildDocs(batch) == [i \in 1..Len(batch) |-> DocumentInput(batch[i])]

(* payload.get("documents", []) *)
PayloadDocuments(payload) ==
  IF payload.kind = "dict" THEN payload.documents ELSE <<>>

(* Case(id=case_id, title=title, notes=payload.get("notes")) *)
Case(case_id, payload) ==
  [id |-> case_id,
   title |-> payload.title,
   matter |-> DefaultMatter,
   notes |-> IF payload.notes = "absent" THEN "None" ELSE payload.notes]

TitleIsNone(payload) == payload.title \in {"absent", "None"}

(* "not title" *)
TitleMissing(payload) == payload.title \in {"absent", "None", ""}

(* The list bound to a case id *)
DocsOf(id) == heap[DB_DOCS[id]]

TotalDocs ==
  LET RECURSIVE Sum(_)
      Sum(i) == IF i = 0 THEN 0 ELSE Len(heap[i]) + Sum(i - 1)
  IN Sum(Len(heap))

---------------------------------------------------------------------------
(* Requests *)

Headers ==
  { [present |-> FALSE, s |-> <<>>],
    [present |-> TRUE, s |-> <<>>],
    [present |-> TRUE, s |-> <<"Basic", " ", "changeme">>],
    [present |-> TRUE, s |-> <<"Bearer">>],
    [present |-> TRUE, s |-> <<"Bearer", " ", "outro">>],
    [present |-> TRUE, s |-> <<"Bearer", " ", "changeme">>],
    [present |-> TRUE, s |-> <<"Bearer", " ", " ", "changeme", " ">>] }

GoodHeader == [present |-> TRUE, s |-> <<"Bearer", " ", "changeme">>]

CreatePayloads ==
  { [title |-> "absent", matter |-> "absent", notes |-> "n"],
    [title |-> "", matter |-> "Direito Civil", notes |-> "absent"],
    [title |-> "A", matter |-> "absent", notes |-> "absent"],
    [title |-> "B", matter |-> "Direito Civil", notes |-> "n"] }

DocInputs ==
  { [type |-> "peticao_inicial", content |-> "x", encoding |-> "absent"],
    [type |-> "sentenca", content |-> "x", encoding |-> "base64"],
    [type |-> "laudo", content |-> "x", encoding |-> "plain"],
    [type |-> "ro", content |-> "x", encoding |-> "hex"] }

ValidDocInputs == { d \in DocInputs : DocValid(d) }

InvalidDocInputs == DocInputs \ ValidDocInputs

FirstDoc == [type |-> "peticao_inicial", content |-> "x", encoding |-> "absent"]

ValidBatches == UNION { [1..n -> ValidDocInputs] : n \in 0..MaxBatch }

(* One invalid document at any place among valid ones *)
InvalidBatches ==
  UNION { { [i \in 1..n |-> IF i = k THEN d ELSE FirstDoc] :
              k \in 1..n, d \in InvalidDocInputs } : n \in 1..MaxBatch }

Batches == ValidBatches \cup InvalidBatches

(* A body that is a dict with "documents", a dict without it, or null *)
AttachPayloads ==
  { [kind |-> "dict", documents |-> b] : b \in Batches }
  \cup { [kind |-> "nokey", documents |-> <<>>],
         [kind |-> "null", documents |-> <<>>] }

SimpleAttachPayloads ==
  { [kind |-> "dict", documents |-> <<FirstDoc>>],
    [kind |-> "dict",
     documents |-> <<[type |-> "laudo", content |-> "x", encoding |-> "plain"]>>],
    [kind |-> "nokey", documents |-> <<>>],
    [kind |-> "null", documents |-> <<>>] }

ForeignId == <<"proc_", "7">>

CaseIds == { FormatCaseId(n) : n \in 1..MaxCases } \cup {ForeignId}

Limits == (-MaxLimit)..MaxLimit

SearchReqs ==
  { [given |-> TRUE, limit |-> k] : k \in Limits }
  \cup { [given |-> FALSE, limit |-> DefaultLimit] }

(* Requests: a handler that fails the bearer check reads nothing else of its
   request, so the headers other than GoodHeader come with one request each *)
CreateRequests ==
  { r \in [auth : Headers, payload : CreatePayloads] :
      r.auth = GoodHeader \/ r.payload.title = "B" }

AttachRequests ==
  { r \in [auth : Headers, caseId : CaseIds, payload : SimpleAttachPayloads] :
      r.auth = GoodHeader
        \/ (r.caseId = FormatCaseId(1) /\ r.payload.kind = "nokey") }

(* Requests of the runs that look at the document lists *)
DocsCreateRequests ==
  { r \in CreateRequests : r.auth = GoodHeader /\ r.payload.title = "A" }

DocsAttachRequests ==
  [auth : {GoodHeader}, caseId : CaseIds, payload : AttachPayloads]

CaseRequests ==
  { r \in [auth : Headers, caseId : CaseIds] :
      r.auth = GoodHeader \/ r.caseId = FormatCaseId(1) }

SearchRequests ==
  { r \in [auth : Headers, req : SearchReqs] :
      r.auth = GoodHeader \/ ~r.req.given }

NoPayload == [title |-> "absent", matter |-> "absent", notes |-> "absent"]

NoCase == [id |-> <<>>, title |-> "None", matter |-> "None", notes |-> "None"]

NoResp ==
  [op |-> "none", status |-> 0, auth |-> [present |-> FALSE, s |-> <<>>],
   caseId |-> <<>>, title |-> "None", matter |-> "None", notes |-> "None",
   batch |-> <<>>, limit |-> 0, case |-> NoCase, count |-> 0, items |-> <<>>,
   artifact |-> FALSE]

(* A handler's frame: its request, its local variables, its response *)
NoLocal ==
  [op |-> "none", auth |-> [present |-> FALSE, s |-> <<>>], caseId |-> <<>>,
   payload |-> NoPayload, kind |-> "null", batch |-> <<>>,
   case_id |-> <<>>, c |-> NoCase, docs |-> <<>>, ref |-> 0,
   status |-> 0, count |-> 0]

Failed(op, auth, status) ==
  [NoResp EXCEPT !.op = op, !.auth = auth, !.status = status]

---------------------------------------------------------------------------
(* Store operations *)

(* len(DB_CASES) + 1, formatted *)
NextCaseId == FormatCaseId(Cardinality(DOMAIN DB_CASES) + 1)

(* d[key] = value *)
SetItem(d, key, value) ==
  [k \in DOMAIN d \cup {key} |-> IF k = key THEN value ELSE d[k]]

(* DB_CASES[case_id] = c *)
StoreCaseDropped(cases, c) == cases

StoreCase(cases, c) == SetItem(cases, c.id, c)

(* caseId not in DB_CASES, negated *)
CaseExists(caseId) == caseId \in DOMAIN DB_CASES

ExtendFront(lst, docs) == docs \o lst

(* lst.extend(docs) *)
Extend(lst, docs) == lst \o docs

---------------------------------------------------------------------------
(* The handlers, each run to completion *)

Init ==
  /\ DB_CASES = <<>>
  /\ DB_DOCS = <<>>
  /\ heap = <<>>
  /\ resp = NoResp
  /\ issued = <<>>
  /\ attached = [id \in CaseIds |-> <<>>]
  /\ supplied = [id \in CaseIds |-> NoPayload]
  /\ pc = [p \in 1..NumProcs |-> "idle"]
  /\ loc = [p \in 1..NumProcs |-> NoLocal]

create_case(auth, payload) ==
  LET a == check_auth(auth)
      case_id == NextCaseId
      c == Case(case_id, payload)
      seen == [NoResp EXCEPT !.op = "create_case", !.auth = auth,
                 !.title = payload.title]
      done == [seen EXCEPT !.matter = payload.matter, !.notes = payload.notes]
  IN /\ UNCHANGED <<attached, pc, loc>>
     /\ IF a # 200
        THEN /\ resp' = Failed("create_case", auth, a)
             /\ UNCHANGED <<store, issued, supplied>>
        ELSE IF TitleMissing(payload)
        THEN /\ resp' = [seen EXCEPT !.status = 400]
             /\ UNCHANGED <<store, issued, supplied>>
        ELSE /\ Cardinality(DOMAIN DB_CASES) < MaxCases
             /\ DB_CASES' = StoreCase(DB_CASES, c)
             /\ heap' = Append(heap, <<>>)
             /\ DB_DOCS' = SetItem(DB_DOCS, case_id, Len(heap) + 1)
             /\ issued' = Append(issued, c.id)
             /\ supplied' = [supplied EXCEPT ![c.id] = payload]
             /\ resp' = [done EXCEPT !.status = 201, !.caseId = c.id, !.case = c]

add_documents(auth, caseId, payload) ==
  LET a == check_auth(auth)
      batch == PayloadDocuments(payload)
      docs == BuildDocs(batch)
      found == [NoResp EXCEPT !.op = "add_documents", !.auth = auth,
                  !.caseId = caseId]
      seen == [found EXCEPT !.batch = batch]
  IN /\ UNCHANGED <<DB_CASES, DB_DOCS, issued, supplied, pc, loc>>
     /\ IF a # 200
        THEN /\ resp' = Failed("add_documents", auth, a)
             /\ UNCHANGED <<heap, attached>>
        ELSE IF ~CaseExists(caseId)
        THEN /\ resp' = [found EXCEPT !.status = 404]
             /\ UNCHANGED <<heap, attached>>
        ELSE IF payload.kind = "null" \/ ~BatchValid(batch)
                  \/ caseId \notin DOMAIN DB_DOCS
        THEN /\ resp' = [seen EXCEPT !.status = 500]
             /\ UNCHANGED <<heap, attached>>
        ELSE /\ TotalDocs + Len(docs) <= MaxDocs
             /\ heap' = [heap EXCEPT ![DB_DOCS[caseId]] = Extend(@, docs)]
             /\ attached' = [attached EXCEPT ![caseId] = @ \o batch]
             /\ resp' = [seen EXCEPT !.status = 200, !.count = Len(docs)]

get_case(auth, caseId) ==
  LET a == check_auth(auth)
      seen == [NoResp EXCEPT !.op = "get_case", !.auth = auth,
                 !.caseId = caseId]
  IN /\ UNCHANGED <<store, issued, attached, supplied, pc, loc>>
     /\ IF a # 200
        THEN resp' = Failed("get_case", auth, a)
        ELSE IF ~CaseExists(caseId)
        THEN resp' = [seen EXCEPT !.status = 404]
        ELSE resp' = [seen EXCEPT !.status = 200, !.case = DB_CASES[caseId]]

analyze_case_no_lookup(auth, caseId) ==
  LET a == check_auth(auth)
      seen == [NoResp EXCEPT !.op = "analyze_case", !.auth = auth,
                 !.caseId = caseId]
  IN /\ UNCHANGED <<store, issued, attached, supplied, pc, loc>>
     /\ IF a # 200
        THEN resp' = Failed("analyze_case", auth, a)
        ELSE resp' = [seen EXCEPT !.status = 200, !.artifact = TRUE,
                        !.items = AnalysisCitations]

analyze_case(auth, caseId) ==
  LET a == check_auth(auth)
      seen == [NoResp EXCEPT !.op = "analyze_case", !.auth = auth,
                 !.caseId = caseId]
  IN /\ UNCHANGED <<store, issued, attached, supplied, pc, loc>>
     /\ IF a # 200
        THEN resp' = Failed("analyze_case", auth, a)
        ELSE IF ~CaseExists(caseId)
        THEN resp' = [seen EXCEPT !.status = 404]
        ELSE resp' = [seen EXCEPT !.status = 200, !.artifact = TRUE,
                        !.items = AnalysisCitations]

strategy_case(auth, caseId) ==
  LET a == check_auth(auth)
      seen == [NoResp EXCEPT !.op = "strategy_case", !.auth = auth,
                 !.caseId = caseId]
  IN /\ UNCHANGED <<store, issued, attached, supplied, pc, loc>>
     /\ IF a # 200
        THEN resp' = Failed("strategy_case", auth, a)
        ELSE IF ~CaseExists(caseId)
        THEN resp' = [seen EXCEPT !.status = 404]
        ELSE resp' = [seen EXCEPT !.status = 200, !.artifact = TRUE]

search_normas(auth, req) ==
  LET a == check_auth(auth)
      seen == [NoResp EXCEPT !.op = "search_normas", !.auth = auth,
                 !.limit = req.limit]
  IN /\ UNCHANGED <<store, issued, attached, supplied, pc, loc>>
     /\ IF a # 200
        THEN resp' = Failed("search_normas", auth, a)
        ELSE resp' = [seen EXCEPT !.status = 200,
                        !.items = SliceTo(SearchItems, req.limit)]

Next ==
  \/ \E r \in CreateRequests : create_case(r.auth, r.payload)
  \/ \E r \in AttachRequests : add_documents(r.auth, r.caseId, r.payload)
  \/ \E r \in CaseRequests : get_case(r.auth, r.caseId)
  \/ \E r \in CaseRequests : analyze_case(r.auth, r.caseId)
  \/ \E r \in CaseRequests : strategy_case(r.auth, r.caseId)
  \/ \E r \in SearchRequests : search_normas(r.auth, r.req)

Spec == Init /\ [][Next]_vars

(* create_case and add_documents alone, with every batch *)
NextDocs ==
  \/ \E r \in DocsCreateRequests : create_case(r.auth, r.payload)
  \/ \E r \in DocsAttachRequests : add_documents(r.auth, r.caseId, r.payload)

SpecDocs == Init /\ [][NextDocs]_vars

---------------------------------------------------------------------------
(* The handlers as the threads of the worker pool run them: one action per
   access to DB_CASES, DB_DOCS or a list, the steps on locals joined to the
   access that follows them.  A thread serves one request. *)

Procs == 1..NumProcs

Attachers == 1..NumAttachers

ConcHeaders == {GoodHeader, [present |-> TRUE, s |-> <<"Bearer", " ", "outro">>]}

ConcCreateRequests ==
  { r \in [auth : ConcHeaders, payload : CreatePayloads] :
      r.auth = GoodHeader \/ r.payload.title = "B" }

(* Batches of one document repeated, so that two batches differ everywhere *)
UniformBatches == { [i \in 1..MaxBatch |-> d] : d \in ValidDocInputs }

ConcBatches ==
  UniformBatches \cup { <<>>, <<CHOOSE d \in DocInputs : ~DocValid(d)>> }

ConcCaseIds == { FormatCaseId(n) : n \in 1..2 }

ConcAttachRequests ==
  { r \in [auth : ConcHeaders, caseId : ConcCaseIds,
           payload : [kind : {"dict"}, documents : ConcBatches]] :
      r.auth = GoodHeader
        \/ (r.caseId = FormatCaseId(1) /\ r.payload.documents = <<>>) }

AttachOnlyRequests ==
  [auth : {GoodHeader}, caseId : ConcCaseIds,
   payload : [kind : {"dict"}, documents : UniformBatches \cup {<<>>}]]

Finish(p, status) ==
  /\ pc' = [pc EXCEPT ![p] = "done"]
  /\ loc' = [loc EXCEPT ![p].status = status]

(* create_case, lines 69-72: check_auth and the title *)
CreateBegin(p, auth, payload) ==
  LET a == check_auth(auth)
      frame == [NoLocal EXCEPT !.op = "create_case", !.auth = auth,
                  !.payload = payload]
  IN /\ pc[p] = "idle"
     /\ UNCHANGED <<store, resp, issued, attached, supplied>>
     /\ IF a # 200
        THEN /\ pc' = [pc EXCEPT ![p] = "done"]
             /\ loc' = [loc EXCEPT ![p] = [frame EXCEPT !.status = a]]
        ELSE IF TitleMissing(payload)
        THEN /\ pc' = [pc EXCEPT ![p] = "done"]
             /\ loc' = [loc EXCEPT ![p] = [frame EXCEPT !.status = 400]]
        ELSE /\ pc' = [pc EXCEPT ![p] = "c_len"]
             /\ loc' = [loc EXCEPT ![p] = frame]

(* create_case, lines 73-74: len(DB_CASES) is read, the Case is built *)
CreateReadLen(p) ==
  /\ pc[p] = "c_len"
  /\ pc' = [pc EXCEPT ![p] = "c_put"]
  /\ loc' = [loc EXCEPT ![p].case_id = NextCaseId,
                        ![p].c = Case(NextCaseId, loc[p].payload)]
  /\ UNCHANGED <<store, resp, issued, attached, supplied>>

(* create_case, line 75 *)
CreateWriteCase(p) ==
  /\ pc[p] = "c_put"
  /\ DB_CASES' = StoreCase(DB_CASES, loc[p].c)
  /\ pc' = [pc EXCEPT ![p] = "c_docs"]
  /\ UNCHANGED <<DB_DOCS, heap, loc, resp, issued, attached, supplied>>

(* create_case, lines 76-77: a new empty list is bound to the id *)
CreateInitDocs(p) ==
  /\ pc[p] = "c_docs"
  /\ heap' = Append(heap, <<>>)
  /\ DB_DOCS' = SetItem(DB_DOCS, loc[p].case_id, Len(heap) + 1)
  /\ Finish(p, 201)
  /\ UNCHANGED <<DB_CASES, resp, issued, attached, supplied>>

(* add_documents, line 81 *)
AttachBegin(p, auth, caseId, payload) ==
  LET a == check_auth(auth)
      frame == [NoLocal EXCEPT !.op = "add_documents", !.auth = auth,
                  !.caseId = caseId, !.kind = payload.kind,
                  !.batch = PayloadDocuments(payload)]
  IN /\ pc[p] = "idle"
     /\ UNCHANGED <<store, resp, issued, attached, supplied>>
     /\ IF a # 200
        THEN /\ pc' = [pc EXCEPT ![p] = "done"]
             /\ loc' = [loc EXCEPT ![p] = [frame EXCEPT !.status = a]]
        ELSE /\ pc' = [pc EXCEPT ![p] = "a_lookup"]
             /\ loc' = [loc EXCEPT ![p] = frame]

(* add_documents, lines 82-83 *)
AttachLookup(p) ==
  /\ pc[p] = "a_lookup"
  /\ UNCHANGED <<store, resp, issued, attached, supplied>>
  /\ IF ~CaseExists(loc[p].caseId)
     THEN Finish(p, 404)
     ELSE /\ pc' = [pc EXCEPT ![p] = "a_validate"]
          /\ UNCHANGED loc

(* add_documents, line 84 *)
AttachValidate(p) ==
  /\ pc[p] = "a_validate"
  /\ UNCHANGED <<store, resp, issued, attached, supplied>>
  /\ IF loc[p].kind = "null" \/ ~BatchValid(loc[p].batch)
     THEN Finish(p, 500)
     ELSE /\ pc' = [pc EXCEPT ![p] = "a_getlist"]
          /\ loc' = [loc EXCEPT ![p].docs = BuildDocs(loc[p].batch)]

(* add_documents, line 85: DB_DOCS[caseId] *)
AttachGetList(p) ==
  /\ pc[p] = "a_getlist"
  /\ UNCHANGED <<store, resp, issued, attached, supplied>>
  /\ IF loc[p].caseId \notin DOMAIN DB_DOCS
     THEN Finish(p, 500)
     ELSE /\ pc' = [pc EXCEPT ![p] = "a_extend"]
          /\ loc' = [loc EXCEPT ![p].ref = DB_DOCS[loc[p].caseId]]

AttachExtendPerItem(p) ==
  /\ pc[p] = "a_extend"
  /\ UNCHANGED <<DB_CASES, DB_DOCS, resp, issued, attached, supplied>>
  /\ IF loc[p].docs = <<>>
     THEN /\ Finish(p, 200)
          /\ UNCHANGED heap
     ELSE /\ heap' = [heap EXCEPT ![loc[p].ref] = Append(@, Head(loc[p].docs))]
          /\ loc' = [loc EXCEPT ![p].docs = Tail(@)]
          /\ UNCHANGED pc

(* add_documents, lines 85-86: extend, one call into the list *)
AttachExtend(p) ==
  /\ pc[p] = "a_extend"
  /\ heap' = [heap EXCEPT ![loc[p].ref] = Extend(@, loc[p].docs)]
  /\ pc' = [pc EXCEPT ![p] = "done"]
  /\ loc' = [loc EXCEPT ![p].status = 200, ![p].count = Len(loc[p].docs)]
  /\ UNCHANGED <<DB_CASES, DB_DOCS, resp, issued, attached, supplied>>

(* Concurrent add_documents calls; create_case runs alone *)
NextAttach ==
  \/ \E r \in DocsCreateRequests : create_case(r.auth, r.payload)
  \/ \E p \in Attachers, r \in AttachOnlyRequests :
       AttachBegin(p, r.auth, r.caseId, r.payload)
  \/ \E p \in Attachers : AttachLookup(p)
  \/ \E p \in Attachers : AttachValidate(p)
  \/ \E p \in Attachers : AttachGetList(p)
  \/ \E p \in Attachers : AttachExtend(p)

SpecAttach == Init /\ [][NextAttach]_vars

(* Concurrent create_case and add_documents calls *)
NextConc ==
  \/ \E p \in Procs, r \in ConcCreateRequests :
       CreateBegin(p, r.auth, r.payload)
  \/ \E p \in Procs : CreateReadLen(p)
  \/ \E p \in Procs : CreateWriteCase(p)
  \/ \E p \in Procs : CreateInitDocs(p)
  \/ \E p \in Procs, r \in ConcAttachRequests :
       AttachBegin(p, r.auth, r.caseId, r.payload)
  \/ \E p \in Procs : AttachLookup(p)
  \/ \E p \in Procs : AttachValidate(p)
  \/ \E p \in Procs : AttachGetList(p)
  \/ \E p \in Procs : AttachExtend(p)

SpecConc == Init /\ [][NextConc]_vars

---------------------------------------------------------------------------
(* Properties of the handlers run one after another (Spec) *)

(* The token check_auth compares with the secret *)
TokenOf(h) == Strip(AfterFirstSpace(h.s))

CredentialFails(h) ==
  \/ ~h.present
  \/ ~StartsWith(h.s, <<"Bearer", " ">>)
  \/ TokenOf(h) # API_KEY

Produced(id) == \E i \in 1..Len(issued) : issued[i] = id

(* C1: every id returned by a successful create_case differs from the id
   returned by every earlier successful create_case. *)
C1_IdsUnique ==
  \A i, j \in 1..Len(issued) : i # j => issued[i] # issued[j]

C1_Witness ==
  /\ Len(issued) >= 2
  /\ resp.op = "create_case"
  /\ resp.status = 201

(* C2: a request of any of the six operations whose header is absent, lacks
   the "Bearer " scheme or carries a token other than the secret ends in 401
   or 403 and leaves the case map and the document lists as they were. *)
C2_AuthFailureNoEffect ==
  [][ (resp'.op # "none" /\ CredentialFails(resp'.auth))
        => /\ resp'.status \in {401, 403}
           /\ store' = store
           /\ resp'.case = NoCase /\ resp'.items = <<>> /\ ~resp'.artifact ]_vars

C2_Witness ==
  /\ resp.op = "add_documents"
  /\ resp.status = 403
  /\ TotalDocs > 0

(* C3: with a valid credential, get_case, add_documents, analyze_case and
   strategy_case on an id no create_case has produced answer 404, return no
   artifact and leave the case map and every document list unchanged. *)
C3_UnknownCaseNotFound ==
  [][ ( /\ resp'.op \in {"get_case", "add_documents", "analyze_case",
                         "strategy_case"}
        /\ ~CredentialFails(resp'.auth)
        /\ ~Produced(resp'.caseId) )
        => /\ resp'.status = 404
           /\ resp'.case = NoCase /\ resp'.items = <<>> /\ ~resp'.artifact
           /\ resp'.count = 0
           /\ store' = store ]_vars

C3_Witness ==
  /\ resp.op = "analyze_case"
  /\ resp.status = 404
  /\ ~Produced(resp.caseId)
  /\ TotalDocs > 0

(* C4: add_documents on an existing case with a batch holding a document of
   unknown type or encoding is rejected as a whole with 400 and appends
   nothing. *)
C4_InvalidBatchIs400 ==
  [][ ( /\ resp'.op = "add_documents"
        /\ ~CredentialFails(resp'.auth)
        /\ Produced(resp'.caseId)
        /\ ~BatchValid(resp'.batch) )
        => /\ resp'.status = 400
           /\ store' = store ]_vars

(* C5: each case's document list is the concatenation, in call order, of the
   batches its successful add_documents calls were given, duplicates kept;
   a successful call reports the length of its own batch. *)
C5_DocsAreConcatenation ==
  /\ \A id \in DOMAIN DB_CASES : DocsOf(id) = BuildDocs(attached[id])
  /\ (resp.op = "add_documents" /\ resp.status = 200)
       => resp.count = Len(resp.batch)

C5_Witness ==
  /\ resp.op = "add_documents"
  /\ resp.status = 200
  /\ resp.count = 1
  /\ Len(DocsOf(resp.caseId)) = 3
  /\ DocsOf(resp.caseId)[1] # DocsOf(resp.caseId)[2]
  /\ DocsOf(resp.caseId)[1] = DocsOf(resp.caseId)[3]
  /\ Cardinality(DOMAIN DB_CASES) = 2

(* C6: search_normas returns min(limit, available) citations, never fewer
   than zero nor more than limit, the highest ranked first. *)
C6_SearchCount ==
  (resp.op = "search_normas" /\ resp.status = 200)
    => /\ Len(resp.items) = Min(resp.limit, Len(SearchItems))
       /\ Len(resp.items) >= 0
       /\ Len(resp.items) <= resp.limit
       /\ resp.items = SubSeq(SearchItems, 1, Len(resp.items))

(* C8: with a valid credential, create_case without a title or with an empty
   one answers 400, leaves both maps as they were and does not change the id
   the next successful create_case receives. *)
C8_MissingTitleNoRecord ==
  [][ ( /\ resp'.op = "create_case"
        /\ ~CredentialFails(resp'.auth)
        /\ resp'.title \in {"absent", ""} )
        => /\ resp'.status = 400
           /\ resp'.case = NoCase
           /\ store' = store
           /\ NextCaseId' = NextCaseId ]_vars

C8_Witness ==
  /\ resp.op = "create_case"
  /\ resp.status = 400
  /\ resp.title = ""
  /\ DB_CASES # <<>>

(* C9: the record returned by a successful create_case, and by every later
   get_case on its id, carries the title and notes supplied and the matter
   supplied, or the default matter when none was supplied. *)
C9_RecordCarriesInput ==
  ( /\ resp.op \in {"create_case", "get_case"}
    /\ resp.status \in {200, 201} )
    => LET given == supplied[resp.caseId]
       IN /\ resp.case.title = given.title
          /\ resp.case.notes =
               (IF given.notes = "absent" THEN "None" ELSE given.notes)
          /\ resp.case.matter =
               (IF given.matter = "absent" THEN DefaultMatter ELSE given.matter)

---------------------------------------------------------------------------
(* Properties of the handlers run by concurrent threads *)

Orderings(S) ==
  { f \in [1..Cardinality(S) -> S] : \A i, j \in DOMAIN f : i # j => f[i] # f[j] }

RECURSIVE ConcatBatches(_)
ConcatBatches(ord) ==
  IF ord = <<>> THEN <<>>
  ELSE BuildDocs(loc[Head(ord)].batch) \o ConcatBatches(Tail(ord))

Attached(id) ==
  { p \in Procs : /\ pc[p] = "done"
                  /\ loc[p].op = "add_documents"
                  /\ loc[p].status = 200
                  /\ loc[p].caseId = id }

(* C7: whatever the interleaving of concurrent add_documents calls on a case,
   its document list is the batches of the calls that have appended, each
   whole, contiguous and in its own order, one after another. *)
C7_BatchesAtomic ==
  \A id \in DOMAIN DB_CASES :
    \E ord \in Orderings(Attached(id)) : DocsOf(id) = ConcatBatches(ord)

C7_Witness ==
  \E id \in DOMAIN DB_CASES :
    /\ Cardinality(Attached(id)) = 2
    /\ \A p \in Attached(id) : Len(loc[p].batch) = 2
    /\ \E p, q \in Attached(id) : loc[p].batch # loc[q].batch
    /\ Len(DocsOf(id)) = 4

Created ==
  { p \in Procs : pc[p] = "done" /\ loc[p].op = "create_case"
                  /\ loc[p].status = 201 }

(* C10: concurrent create_case calls receive distinct ids, no case record is
   overwritten, no document list that holds documents is reset to empty, and
   every id in the case map has a document list. *)
C10_CreateAtomic ==
  [][ /\ \A p, q \in Created' : p # q => loc'[p].case_id # loc'[q].case_id
      /\ \A id \in DOMAIN DB_CASES : DB_CASES'[id] = DB_CASES[id]
      /\ \A id \in DOMAIN DB_DOCS :
           DocsOf(id) # <<>> => heap'[DB_DOCS'[id]] # <<>>
      /\ DOMAIN DB_CASES' \subseteq DOMAIN DB_DOCS' ]_vars

====
